---------------------------- MODULE Spec2Model ----------------------------
(***************************************************************************)
(* A model of the payload-mining and aggregation engine of ha-sedif        *)
(* (src/ha-sedif-addon/sedif_scraper.py): value coercion, metadata and     *)
(* record mining, record normalisation and aggregate_last_days, and the    *)
(* post-capture part of fetch_consumption that drives them.                *)
(*                                                                         *)
(* Python floats are IEEE-754 binary64 numbers.  They are modelled bit for *)
(* bit: a float is a sign, a 53-bit mantissa and an exponent, the mantissa *)
(* held as a sequence of 15-bit limbs (least significant first) because a  *)
(* mantissa does not fit one integer of the model checker.  Every float    *)
(* operation computes the exact result and rounds it to nearest, ties to   *)
(* even, as the hardware does.                                             *)
(***************************************************************************)
EXTENDS Integers, Sequences, FiniteSets, TLC

(***************************************************************************)
(* Natural numbers of any size: sequences of limbs, least significant      *)
(* first, without leading (most significant) zero limbs; <<>> is zero.     *)
(***************************************************************************)
LimbBits == 15

LimbBase == 2^15

MantBits == 53

RECURSIVE BTrim(_)
BTrim(a) ==
    IF a = <<>> THEN <<>>
    ELSE IF a[Len(a)] = 0 THEN BTrim(SubSeq(a, 1, Len(a) - 1))
    ELSE a

RECURSIVE BFromInt(_)
BFromInt(n) ==
    IF n = 0 THEN <<>> ELSE <<n % LimbBase>> \o BFromInt(n \div LimbBase)

RECURSIVE BToInt(_)
BToInt(a) ==
    IF a = <<>> THEN 0 ELSE a[1] + LimbBase * BToInt(Tail(a))

Limb(a, i) == IF i <= Len(a) THEN a[i] ELSE 0

RECURSIVE BAddFrom(_, _, _, _)
BAddFrom(a, b, i, c) ==
    IF i > Len(a) /\ i > Len(b)
    THEN (IF c = 0 THEN <<>> ELSE <<c>>)
    ELSE LET t == Limb(a, i) + Limb(b, i) + c
         IN  <<t % LimbBase>> \o BAddFrom(a, b, i + 1, t \div LimbBase)

BAdd(a, b) == BAddFrom(a, b, 1, 0)

\* a - b for a >= b
RECURSIVE BSubFrom(_, _, _, _)
BSubFrom(a, b, i, c) ==
    IF i > Len(a) THEN <<>>
    ELSE LET t == Limb(a, i) - Limb(b, i) - c
         IN  IF t < 0
             THEN <<t + LimbBase>> \o BSubFrom(a, b, i + 1, 1)
             ELSE <<t>> \o BSubFrom(a, b, i + 1, 0)

BSub(a, b) == BTrim(BSubFrom(a, b, 1, 0))

\* -1, 0 or 1 as a < b, a = b, a > b
RECURSIVE BCmpFrom(_, _, _)
BCmpFrom(a, b, i) ==
    IF i = 0 THEN 0
    ELSE IF a[i] < b[i] THEN -1
    ELSE IF a[i] > b[i] THEN 1
    ELSE BCmpFrom(a, b, i - 1)

BCmp(a, b) ==
    IF Len(a) < Len(b) THEN -1
    ELSE IF Len(a) > Len(b) THEN 1
    ELSE BCmpFrom(a, b, Len(a))

\* a * k + c for 0 <= k < LimbBase
RECURSIVE BMulSmallFrom(_, _, _, _)
BMulSmallFrom(a, k, i, c) ==
    IF i > Len(a)
    THEN (IF c = 0 THEN <<>> ELSE <<c>>)
    ELSE LET t == a[i] * k + c
         IN  <<t % LimbBase>> \o BMulSmallFrom(a, k, i + 1, t \div LimbBase)

BMulSmall(a, k) == IF k = 0 THEN <<>> ELSE BMulSmallFrom(a, k, 1, 0)

\* quotient and remainder of a by d, 0 < d < LimbBase
RECURSIVE BDivSmallFrom(_, _, _, _)
BDivSmallFrom(a, d, i, r) ==
    IF i = 0 THEN [q |-> <<>>, r |-> r]
    ELSE LET t    == r * LimbBase + a[i]
             rest == BDivSmallFrom(a, d, i - 1, t % d)
         IN  [q |-> rest.q \o <<t \div d>>, r |-> rest.r]

BDivSmall(a, d) ==
    LET x == BDivSmallFrom(a, d, Len(a), 0)
    IN  [q |-> BTrim(x.q), r |-> x.r]

Zeros(n) == [i \in 1..n |-> 0]

\* a * 2^s
BShl(a, s) ==
    IF a = <<>> THEN <<>>
    ELSE Zeros(s \div LimbBits) \o BMulSmall(a, 2^(s % LimbBits))

\* floor(a / 2^s) and whether a nonzero bit was shifted out
BShr(a, s) ==
    LET w    == s \div LimbBits
        low  == \E i \in 1..w : i <= Len(a) /\ a[i] # 0
        rest == IF w >= Len(a) THEN <<>> ELSE SubSeq(a, w + 1, Len(a))
        d    == BDivSmall(rest, 2^(s % LimbBits))
    IN  [q |-> d.q, sticky |-> low \/ d.r # 0]

SmallBitLen(x) == CHOOSE k \in 0..LimbBits : x < 2^k /\ (k = 0 \/ x >= 2^(k - 1))

BBitLen(a) ==
    IF a = <<>> THEN 0 ELSE LimbBits * (Len(a) - 1) + SmallBitLen(a[Len(a)])

RECURSIVE BMulFrom(_, _, _)
BMulFrom(a, b, j) ==
    IF j > Len(b) THEN <<>>
    ELSE BAdd(Zeros(j - 1) \o BMulSmall(a, b[j]), BMulFrom(a, b, j + 1))

BMul(a, b) == BTrim(BMulFrom(a, b, 1))

\* n successive divisions by 10: floor(a / 10^n) and whether anything remained
RECURSIVE BDivPow10(_, _)
BDivPow10(a, n) ==
    IF n = 0 THEN [q |-> a, sticky |-> FALSE]
    ELSE LET d == BDivSmall(a, 10)
         IN  IF d.r = 0 THEN BDivPow10(d.q, n - 1)
             ELSE [q |-> BDivPow10(d.q, n - 1).q, sticky |-> TRUE]

RECURSIVE BMulPow10(_, _)
BMulPow10(a, n) ==
    IF n = 0 \/ a = <<>> THEN a ELSE BMulPow10(BMulSmall(a, 10), n - 1)

\* the largest k with k * d <= r, for r < d * LimbBase and a divisor d whose top
\* limb is at least LimbBase / 2: the estimate from the top limbs is at most 2
\* too large (Knuth, TAOCP 4.3.1, Theorem B)
QuotDigit(r, d) ==
    IF BCmp(r, d) < 0 THEN 0
    ELSE LET rt  == Limb(r, Len(d) + 1) * LimbBase + Limb(r, Len(d))
             est == rt \div d[Len(d)]
             q0  == IF est >= LimbBase THEN LimbBase - 1 ELSE est
         IN  IF BCmp(BMulSmall(d, q0), r) <= 0 THEN q0
             ELSE IF BCmp(BMulSmall(d, q0 - 1), r) <= 0 THEN q0 - 1
             ELSE q0 - 2

RECURSIVE BDivFrom(_, _, _, _)

\* the quotient rest.q with the digit k above it
PushDigit(rest, k) == [q |-> rest.q \o <<k>>, r |-> rest.r]

\* one step of the long division: the digit k of remainder r1, then the rest
BDivDigit(n, d, i, r1, k) ==
    IF k = 0 THEN PushDigit(BDivFrom(n, d, i - 1, r1), k)
    ELSE PushDigit(BDivFrom(n, d, i - 1, BSub(r1, BMulSmall(d, k))), k)

\* long division of the limbs n[i], ..., n[1] brought down onto remainder r
BDivFrom(n, d, i, r) ==
    IF i = 0 THEN [q |-> <<>>, r |-> r]
    ELSE BDivDigit(n, d, i, BTrim(<<n[i]>> \o r), QuotDigit(BTrim(<<n[i]>> \o r), d))

TrimQuot(x) == [q |-> BTrim(x.q), r |-> x.r]

\* quotient and remainder of n by d, d's top limb at least LimbBase / 2
BDiv(n, d) == TrimQuot(BDivFrom(n, d, Len(n), <<>>))

(***************************************************************************)
(* binary64 values: [s, m, e] is (-1)^s * m * 2^e with m of exactly        *)
(* MantBits bits, or m = <<>> for zero.  Subnormals, infinities and NaN    *)
(* lie outside the magnitudes of consumption data and are not modelled.    *)
(***************************************************************************)
FZero == [s |-> 0, m |-> <<>>, e |-> 0]

\* the float nearest to (n + f) * 2^e, 0 <= f < 1 and f > 0 iff sticky
FNormal(s, q1, e) ==
    IF BBitLen(q1) > MantBits
    THEN [s |-> s, m |-> BDivSmall(q1, 2).q, e |-> e + 1]
    ELSE [s |-> s, m |-> q1, e |-> e]

\* t.q holds MantBits + 1 bits, the lowest being the guard bit: ties go to even
FRoundGuard(s, t, e, sticky) ==
    IF t.q[1] % 2 = 1 /\ (t.sticky \/ sticky \/ (t.q[1] \div 2) % 2 = 1)
    THEN FNormal(s, BAdd(BDivSmall(t.q, 2).q, <<1>>), e)
    ELSE FNormal(s, BDivSmall(t.q, 2).q, e)

FRoundBits(s, n, e, sticky, len) ==
    IF len <= MantBits
    THEN [s |-> s, m |-> BShl(n, MantBits - len), e |-> e - (MantBits - len)]
    ELSE FRoundGuard(s, BShr(n, len - MantBits - 1), e + (len - MantBits), sticky)

FRound(s, n, e, sticky) ==
    IF n = <<>> THEN FZero ELSE FRoundBits(s, n, e, sticky, BBitLen(n))

FIsZero(x) == x.m = <<>>

FNeg(x) == IF FIsZero(x) THEN x ELSE [x EXCEPT !.s = 1 - x.s]

\* float(n) for an integer n
FFromInt(n) ==
    FRound(IF n < 0 THEN 1 ELSE 0, BFromInt(IF n < 0 THEN -n ELSE n), 0, FALSE)

GuardBits == 75

\* the float nearest to (d.q + f) * 2^e, 0 <= f < 1 and f > 0 iff d.sticky
FRoundQuot(s, d, e) == FRound(s, d.q, e, d.sticky)

\* the float nearest to a / 10^sc, or to a * 10^(-sc)
FScaled(s, a, sc) ==
    IF sc < 0 THEN FRound(s, BMulPow10(a, -sc), 0, FALSE)
    ELSE FRoundQuot(s, BDivPow10(BShl(a, GuardBits), sc), -GuardBits)

\* the float nearest to the decimal n / 10^sc (a literal such as 0.0021 is 21, 4)
FFromDecimal(n, sc) ==
    FScaled(IF n < 0 THEN 1 ELSE 0, BFromInt(IF n < 0 THEN -n ELSE n), sc)

\* -1, 0, 1 comparing magnitudes
FCmpMag(x, y) ==
    IF FIsZero(x) THEN (IF FIsZero(y) THEN 0 ELSE -1)
    ELSE IF FIsZero(y) THEN 1
    ELSE IF x.e < y.e THEN -1
    ELSE IF x.e > y.e THEN 1
    ELSE BCmp(x.m, y.m)

FCmp(x, y) ==
    IF x.s = 0 /\ y.s = 0 THEN FCmpMag(x, y)
    ELSE IF x.s = 1 /\ y.s = 1 THEN FCmpMag(y, x)
    ELSE IF FIsZero(x) /\ FIsZero(y) THEN 0
    ELSE IF x.s = 1 THEN -1 ELSE 1

FLt(x, y) == FCmp(x, y) < 0

FLe(x, y) == FCmp(x, y) <= 0

\* the sum of (-1)^sa * a * 2^e0 and (-1)^sb * b * 2^e0
FAddAligned(sa, a, sb, b, e0) ==
    FRound(IF sa = sb \/ BCmp(a, b) >= 0 THEN sa ELSE sb,
           IF sa = sb THEN BAdd(a, b)
           ELSE IF BCmp(a, b) >= 0 THEN BSub(a, b) ELSE BSub(b, a),
           e0, FALSE)

FAdd(x, y) ==
    IF FIsZero(x) THEN y
    ELSE IF FIsZero(y) THEN x
    ELSE IF x.e < y.e THEN FAddAligned(x.s, x.m, y.s, BShl(y.m, y.e - x.e), x.e)
    ELSE FAddAligned(x.s, BShl(x.m, x.e - y.e), y.s, y.m, y.e)

FMul(x, y) ==
    IF FIsZero(x) \/ FIsZero(y) THEN FZero
    ELSE FRound((x.s + y.s) % 2, BMul(x.m, y.m), x.e + y.e, FALSE)

\* a mantissa shifted left by NormShift bits fills whole limbs
NormShift == (LimbBits - (MantBits % LimbBits)) % LimbBits

QuotBits == MantBits + NormShift

\* x / y for y # 0
\* the float nearest to (d.q + d.r / divisor) * 2^e
FRoundDiv(s, d, e) == FRound(s, d.q, e, d.r # <<>>)

FDiv(x, y) ==
    IF FIsZero(x) THEN FZero
    ELSE FRoundDiv((x.s + y.s) % 2,
                   BDiv(BShl(x.m, NormShift + QuotBits), BShl(y.m, NormShift)),
                   x.e - y.e - QuotBits)

\* Python's round(x, nd): the float nearest to x rounded to nd decimals, the
\* decimal rounding itself done on the exact value of x, ties to even
\* t.q is twice the magnitude scaled by 10^nd, truncated: the nearest integer,
\* ties to even
NearestEven(t) ==
    IF t.q # <<>> /\ t.q[1] % 2 = 1 /\ (t.sticky \/ (t.q[1] \div 2) % 2 = 1)
    THEN BAdd(BDivSmall(t.q, 2).q, <<1>>)
    ELSE BDivSmall(t.q, 2).q

FRoundDec(x, nd) ==
    IF FIsZero(x) \/ x.e >= 0 THEN x
    ELSE FScaled(x.s, NearestEven(BShr(BMulPow10(x.m, nd), -x.e - 1)), nd)


(***************************************************************************)
(* JSON values as json.loads yields them.  A number carries its literal:   *)
(* JNum(n, sc) is the literal n / 10^sc, a Python int when sc = 0 and a    *)
(* float otherwise.  A dict keeps its keys in insertion order, as a        *)
(* sequence of <<key, value>> pairs with distinct keys.  None is null.     *)
(***************************************************************************)
None == [t |-> "null"]

Absent == [t |-> "absent"]

JBool(b) == [t |-> "bool", b |-> b]

JNum(n, sc) == [t |-> "num", n |-> n, sc |-> sc]

JStr(x) == [t |-> "str", str |-> x]

JList(xs) == [t |-> "list", items |-> xs]

JDict(kvs) == [t |-> "dict", kv |-> kvs]

IsFloat(v) == DOMAIN v = {"s", "m", "e"}

\* dict.get(key): the value under key, None when the key is missing
DictGet(node, key) ==
    LET hits == {i \in 1..Len(node.kv) : node.kv[i][1] = key}
    IN  IF hits = {} THEN None ELSE node.kv[CHOOSE i \in hits : TRUE][2]

\* Python truthiness of a JSON value
Truthy(v) ==
    CASE v.t = "null" -> FALSE
      [] v.t = "absent" -> FALSE
      [] v.t = "bool" -> v.b
      [] v.t = "num"  -> v.n # 0
      [] v.t = "str"  -> v.str # ""
      [] v.t = "list" -> v.items # <<>>
      [] v.t = "dict" -> v.kv # <<>>

(***************************************************************************)
(* Text.  A string is a TLA+ string; Ch(st, i) is its i-th character.      *)
(***************************************************************************)
Ch(st, i) == SubSeq(st, i, i)

DigitChars == "0123456789"

UpperChars == "ABCDEFGHIJKLMNOPQRSTUVWXYZ"

LowerChars == "abcdefghijklmnopqrstuvwxyz"

IsDigit(c) == \E i \in 1..Len(DigitChars) : Ch(DigitChars, i) = c

DigitVal(c) == (CHOOSE i \in 1..Len(DigitChars) : Ch(DigitChars, i) = c) - 1

IsLowerAlnum(c) == IsDigit(c) \/ \E i \in 1..Len(LowerChars) : Ch(LowerChars, i) = c

LowerCh(c) ==
    IF \E i \in 1..Len(UpperChars) : Ch(UpperChars, i) = c
    THEN Ch(LowerChars, CHOOSE i \in 1..Len(UpperChars) : Ch(UpperChars, i) = c)
    ELSE c

\* str.lower()
RECURSIVE StrLower(_)
StrLower(st) ==
    IF Len(st) <= 1 THEN LowerCh(st)
    ELSE StrLower(SubSeq(st, 1, Len(st) \div 2))
         \o StrLower(SubSeq(st, Len(st) \div 2 + 1, Len(st)))

\* sub in st
Contains(st, sub) ==
    \E i \in 1..(Len(st) - Len(sub) + 1) : SubSeq(st, i, i + Len(sub) - 1) = sub

\* st.replace(pat, rep), pat not empty
RECURSIVE StrReplace(_, _, _)
StrReplace(st, pat, rep) ==
    IF Len(st) < Len(pat) THEN st
    ELSE IF SubSeq(st, 1, Len(pat)) = pat
    THEN rep \o StrReplace(SubSeq(st, Len(pat) + 1, Len(st)), pat, rep)
    ELSE Ch(st, 1) \o StrReplace(SubSeq(st, 2, Len(st)), pat, rep)

Whitespace == {" ", "\t", "\n", "\r", " "}

\* str.strip()
StrStrip(st) ==
    LET keep == {i \in 1..Len(st) : Ch(st, i) \notin Whitespace}
    IN  IF keep = {} THEN ""
        ELSE SubSeq(st, CHOOSE i \in keep : \A j \in keep : i <= j,
                        CHOOSE i \in keep : \A j \in keep : i >= j)

\* the value of a run of decimal digits
RECURSIVE DigitsToNat(_)
DigitsToNat(st) ==
    IF st = "" THEN 0
    ELSE 10 * DigitsToNat(SubSeq(st, 1, Len(st) - 1)) + DigitVal(Ch(st, Len(st)))

\* the end of the run of digits that starts at i (i - 1 when st[i] is no digit)
DigitRunEnd(st, i) ==
    CHOOSE j \in (i - 1)..Len(st) :
        /\ \A k \in i..j : IsDigit(Ch(st, k))
        /\ (j = Len(st) \/ ~IsDigit(Ch(st, j + 1)))

\* re.search(r"[-+]?\d+(?:\.\d+)?", st): the leftmost match as
\* [neg, digits, frac], or None
RegexNumber(st) ==
    LET starts == {i \in 1..Len(st) :
                     \/ IsDigit(Ch(st, i))
                     \/ Ch(st, i) \in {"-", "+"} /\ i < Len(st) /\ IsDigit(Ch(st, i + 1))}
    IN  IF starts = {} THEN None
        ELSE LET i0   == CHOOSE i \in starts : \A j \in starts : i <= j
                 sgn  == Ch(st, i0) \in {"-", "+"}
                 d0   == IF sgn THEN i0 + 1 ELSE i0
                 d1   == DigitRunEnd(st, d0)
                 hasf == d1 + 2 <= Len(st) /\ Ch(st, d1 + 1) = "." /\ IsDigit(Ch(st, d1 + 2))
                 f1   == IF hasf THEN DigitRunEnd(st, d1 + 2) ELSE d1
             IN  [neg    |-> Ch(st, i0) = "-",
                  digits |-> SubSeq(st, d0, d1),
                  frac   |-> IF hasf THEN SubSeq(st, d1 + 2, f1) ELSE ""]

\* the text of a value as _coerce_float cleans it before the search
CleanNumber(st) ==
    StrReplace(
        StrReplace(
            StrReplace(
                StrReplace(StrReplace(StrStrip(st), " ", " "), "€", ""),
                "m³", "m3"),
            " ", ""),
        ",", ".")

\* float(match.group(0))
MatchFloat(mt) ==
    IF mt = None THEN None
    ELSE FFromDecimal((IF mt.neg THEN -1 ELSE 1) * DigitsToNat(mt.digits \o mt.frac),
                      Len(mt.frac))

coerce_float(value) ==
    CASE value.t = "num"  -> FFromDecimal(value.n, value.sc)
      [] value.t = "bool" -> FFromInt(IF value.b THEN 1 ELSE 0)
      [] value.t = "str"  -> MatchFloat(RegexNumber(CleanNumber(value.str)))
      [] OTHER -> None

round_money(value) == IF value = None THEN None ELSE FRoundDec(value, 2)

\* re.sub(r"[^a-z0-9]", "", key.lower())
RECURSIVE KeepAlnum(_)
KeepAlnum(st) ==
    IF Len(st) <= 1 THEN (IF IsLowerAlnum(st) THEN st ELSE "")
    ELSE KeepAlnum(SubSeq(st, 1, Len(st) \div 2))
         \o KeepAlnum(SubSeq(st, Len(st) \div 2 + 1, Len(st)))

normalize_key(key) == KeepAlnum(StrLower(key))


(***************************************************************************)
(* Calendar.  A date is its proleptic Gregorian ordinal (day 1 is          *)
(* 0001-01-01, a Monday), as datetime.date.toordinal gives it; its ISO     *)
(* text YYYY-MM-DD is the record [y, m, d] of its three fields.  A         *)
(* datetime is [ord, sec]: the day and the seconds into it.                *)
(***************************************************************************)
IsLeap(y) == y % 4 = 0 /\ (y % 100 # 0 \/ y % 400 = 0)

DaysInMonth(y, m) ==
    IF m = 2 THEN (IF IsLeap(y) THEN 29 ELSE 28)
    ELSE IF m \in {4, 6, 9, 11} THEN 30 ELSE 31

DaysBeforeYear(y) ==
    (y - 1) * 365 + (y - 1) \div 4 - (y - 1) \div 100 + (y - 1) \div 400

RECURSIVE DaysBeforeMonth(_, _)
DaysBeforeMonth(y, m) ==
    IF m = 1 THEN 0 ELSE DaysBeforeMonth(y, m - 1) + DaysInMonth(y, m - 1)

ValidYmd(y, m, d) ==
    y \in 1..9999 /\ m \in 1..12 /\ d >= 1 /\ d <= DaysInMonth(y, m)

ymd2ord(y, m, d) == DaysBeforeYear(y) + DaysBeforeMonth(y, m) + d

Ymd(y, m, d) == [y |-> y, m |-> m, d |-> d]

\* date.fromordinal(n) as its ISO fields
ord2ymd(n) ==
    LET y == CHOOSE c \in (n \div 366)..(n \div 365 + 1) :
                 DaysBeforeYear(c) < n /\ n <= DaysBeforeYear(c + 1)
        m == CHOOSE c \in 1..12 :
                 /\ DaysBeforeMonth(y, c) < n - DaysBeforeYear(y)
                 /\ n - DaysBeforeYear(y) <= DaysBeforeMonth(y, c) + DaysInMonth(y, c)
    IN  Ymd(y, m, n - DaysBeforeYear(y) - DaysBeforeMonth(y, m))

\* date.weekday(): Monday is 0
Weekday(n) == (n + 6) % 7

EpochOrdinal == ymd2ord(1970, 1, 1)

MaxOrdinal == ymd2ord(9999, 12, 31)

\* a datetime without time zone: the day as an ordinal and the seconds into it
Datetime(n, sec) == [ord |-> n, sec |-> sec, aware |-> FALSE]

\* a datetime in UTC, as dateutil gives for a text that ends in Z
AwareDatetime(n, sec) == [ord |-> n, sec |-> sec, aware |-> TRUE]

\* an exception that leaves the function it was raised in
Raised == [t |-> "raise"]

AllDigits(st) == \A i \in 1..Len(st) : IsDigit(Ch(st, i))

\* hh:mm:ss as seconds into the day, or -1
ClockSeconds(st) ==
    IF /\ Len(st) = 8 /\ Ch(st, 3) = ":" /\ Ch(st, 6) = ":"
       /\ AllDigits(SubSeq(st, 1, 2)) /\ AllDigits(SubSeq(st, 4, 5))
       /\ AllDigits(SubSeq(st, 7, 8))
       /\ DigitsToNat(SubSeq(st, 1, 2)) < 24 /\ DigitsToNat(SubSeq(st, 4, 5)) < 60
       /\ DigitsToNat(SubSeq(st, 7, 8)) < 60
    THEN 3600 * DigitsToNat(SubSeq(st, 1, 2)) + 60 * DigitsToNat(SubSeq(st, 4, 5))
         + DigitsToNat(SubSeq(st, 7, 8))
    ELSE -1

\* re.match(r"^\d{4}-\d{2}-\d{2}", st)
IsoPrefix(st) ==
    /\ Len(st) >= 10
    /\ AllDigits(SubSeq(st, 1, 4)) /\ Ch(st, 5) = "-"
    /\ AllDigits(SubSeq(st, 6, 7)) /\ Ch(st, 8) = "-"
    /\ AllDigits(SubSeq(st, 9, 10))

\* dateutil's parse of the three numbers a date text holds and of an optional
\* clock after them.  The texts modelled are YYYY-MM-DD and DD/MM/YYYY, alone or
\* followed by "T" or a blank and hh:mm:ss, and by Z after the clock; dateutil
\* raises ValueError on a date that does not exist and on text without a date,
\* which gives None here.
DateutilParse(st, dayfirst) ==
    LET body  == SubSeq(st, 1, 10)
        rest  == SubSeq(st, 11, Len(st))
        zulu  == Len(rest) = 10 /\ Ch(rest, 10) = "Z"
        clock == IF rest = "" THEN 0
                 ELSE IF Ch(rest, 1) \in {"T", " "}
                 THEN ClockSeconds(SubSeq(rest, 2, IF zulu THEN 9 ELSE Len(rest)))
                 ELSE -1
        iso   == IsoPrefix(st)
        slash == /\ Len(st) >= 10
                 /\ AllDigits(SubSeq(st, 1, 2)) /\ Ch(st, 3) = "/"
                 /\ AllDigits(SubSeq(st, 4, 5)) /\ Ch(st, 6) = "/"
                 /\ AllDigits(SubSeq(st, 7, 10))
        a     == DigitsToNat(SubSeq(body, 1, 2))
        b     == DigitsToNat(SubSeq(body, 4, 5))
        y     == IF iso THEN DigitsToNat(SubSeq(body, 1, 4))
                 ELSE DigitsToNat(SubSeq(body, 7, 10))
        m     == IF iso THEN DigitsToNat(SubSeq(body, 6, 7))
                 ELSE IF a > 12 \/ (dayfirst /\ b <= 12) THEN b ELSE a
        d     == IF iso THEN DigitsToNat(SubSeq(body, 9, 10))
                 ELSE IF a > 12 \/ (dayfirst /\ b <= 12) THEN a ELSE b
    IN  IF (iso \/ slash) /\ clock >= 0 /\ ValidYmd(y, m, d)
        THEN (IF zulu THEN AwareDatetime(ymd2ord(y, m, d), clock)
              ELSE Datetime(ymd2ord(y, m, d), clock))
        ELSE None

\* floor(n / 10^sc) for sc >= 0
RECURSIVE FloorPow10(_, _)
FloorPow10(n, sc) == IF sc = 0 THEN n ELSE FloorPow10(n \div 10, sc - 1)

\* ceil(n / 10^sc) for sc >= 0
RECURSIVE CeilPow10(_, _)
CeilPow10(n, sc) == IF sc = 0 THEN n ELSE CeilPow10((n + 9) \div 10, sc - 1)

\* 2^63, the first float beyond a 64-bit time_t
TimeTLimit == [s |-> 0, m |-> <<0, 0, 0, 128>>, e |-> 11]

OutOfTimeT(x) == FLe(TimeTLimit, x) \/ FLt(x, FNeg(TimeTLimit))

\* datetime.fromtimestamp(float(value)) of a number literal n / 10^sc, read on
\* a host whose local time is UTC (the add-on's container).  A float beyond
\* time_t raises OverflowError, which _parse_date does not catch; a year
\* outside 1..9999 raises ValueError, which it catches, and so does the first
\* day of year 1, whose day before fromtimestamp looks up.
FromTimestamp(n, sc) ==
    LET mag  == IF n < 0 THEN -n ELSE n
        big  == IF sc < 0 THEN BMulPow10(BFromInt(mag), -sc)
                ELSE BFromInt(IF n < 0 THEN CeilPow10(mag, sc) ELSE FloorPow10(mag, sc))
        mins == BDivSmall(big, 60)
        days == BDivSmall(mins.q, 1440)
        secs == days.r * 60 + mins.r
        back == n < 0 /\ secs # 0
        day  == IF n >= 0 THEN EpochOrdinal + BToInt(days.q)
                ELSE EpochOrdinal - BToInt(days.q) - (IF back THEN 1 ELSE 0)
    IN  IF OutOfTimeT(FFromDecimal(n, sc)) THEN Raised
        ELSE IF BBitLen(big) > 40 THEN None
        ELSE IF day < 2 \/ day > MaxOrdinal THEN None
        ELSE Datetime(day, IF back THEN 86400 - secs ELSE secs)

parse_date(value) ==
    CASE value.t \in {"num", "bool"} ->
            FromTimestamp(IF value.t = "num" THEN value.n ELSE IF value.b THEN 1 ELSE 0,
                          IF value.t = "num" THEN value.sc ELSE 0)
      [] value.t = "str"  -> DateutilParse(value.str, ~IsoPrefix(value.str))
      [] OTHER -> None

(***************************************************************************)
(* Record Normalizer.  A raw record is [date, volume, cost, unit, raw],    *)
(* cost and unit being Absent when extract_records found no such key.      *)
(***************************************************************************)
\* the decimal digits of n
RECURSIVE NatText(_)
NatText(n) ==
    IF n < 10 THEN SubSeq(DigitChars, n + 1, n + 1)
    ELSE NatText(n \div 10) \o SubSeq(DigitChars, (n % 10) + 1, (n % 10) + 1)

\* n in sc digits
RECURSIVE PadText(_, _)
PadText(n, sc) ==
    IF sc = 1 THEN NatText(n % 10) ELSE PadText(n \div 10, sc - 1) \o NatText(n % 10)

\* the sc decimals n, without the zeros that end them
RECURSIVE FracText(_, _)
FracText(n, sc) ==
    IF sc > 1 /\ n % 10 = 0 THEN FracText(n \div 10, sc - 1) ELSE PadText(n, sc)

RECURSIVE Pow10(_)
Pow10(k) == IF k = 0 THEN 1 ELSE 10 * Pow10(k - 1)

\* repr of the number n / 10^sc: an int for sc = 0, else a float, whose
\* shortest text is the literal itself for the literals of up to 9 digits that
\* are zero or at least 0.0001; the others print in exponent form, of which
\* only the letter is kept
NumText(n, sc) ==
    LET mag == IF n < 0 THEN -n ELSE n
    IN  IF sc = 0 THEN (IF n < 0 THEN "-" ELSE "") \o NatText(mag)
        ELSE IF sc < 0 \/ sc > 9 \/ (mag # 0 /\ sc > 4 /\ mag < Pow10(sc - 4)) THEN "e"
        ELSE (IF n < 0 THEN "-" ELSE "") \o NatText(mag \div Pow10(sc)) \o "."
             \o FracText(mag % Pow10(sc), sc)

\* repr(value) of a JSON value inside a list or dict
RECURSIVE PyRepr(_)
RECURSIVE PyReprItems(_, _)
RECURSIVE PyReprPairs(_, _)
PyReprItems(items, i) ==
    IF i > Len(items) THEN ""
    ELSE (IF i > 1 THEN ", " ELSE "") \o PyRepr(items[i]) \o PyReprItems(items, i + 1)

PyReprPairs(kv, i) ==
    IF i > Len(kv) THEN ""
    ELSE (IF i > 1 THEN ", " ELSE "") \o "'" \o kv[i][1] \o "': " \o PyRepr(kv[i][2])
         \o PyReprPairs(kv, i + 1)

PyRepr(value) ==
    CASE value.t = "str"  -> "'" \o value.str \o "'"
      [] value.t = "null" -> "None"
      [] value.t = "bool" -> IF value.b THEN "True" ELSE "False"
      [] value.t = "num"  -> NumText(value.n, value.sc)
      [] value.t = "list" -> "[" \o PyReprItems(value.items, 1) \o "]"
      [] value.t = "dict" -> "{" \o PyReprPairs(value.kv, 1) \o "}"

\* str(record.get("unit", ""))
PyStr(value) ==
    CASE value.t = "str"    -> value.str
      [] value.t = "absent" -> ""
      [] OTHER              -> PyRepr(value)

\* a variant whose heuristic takes 50 itself as liters
volume_unit_from_50(unit, volume_value) ==
    IF Contains(unit, "litre") \/ unit \in {"l", "litres", "litre"} THEN "liters"
    ELSE IF Contains(unit, "m3") \/ Contains(unit, "m^3") THEN "m3"
    ELSE IF FLe(FFromInt(50), volume_value) THEN "liters"
    ELSE "m3"

\* which unit the number is taken in: "liters" or "m3"
volume_unit(unit, volume_value) ==
    IF Contains(unit, "litre") \/ unit \in {"l", "litres", "litre"} THEN "liters"
    ELSE IF Contains(unit, "m3") \/ Contains(unit, "m^3") THEN "m3"
    ELSE IF FLt(FFromInt(50), volume_value) THEN "liters"
    ELSE "m3"

liters_of(kind, volume_value) ==
    IF kind = "liters" THEN volume_value ELSE FMul(volume_value, FFromInt(1000))

m3_of(kind, volume_value) ==
    IF kind = "liters" THEN FDiv(volume_value, FFromInt(1000)) ELSE volume_value

\* a variant that takes a price of 0 for no price
cost_of_truthy(cost_value, m3, price_m3) ==
    round_money(IF cost_value = None /\ price_m3 # None /\ ~FIsZero(price_m3)
                THEN FMul(m3, price_m3) ELSE cost_value)

cost_of(cost_value, m3, price_m3) ==
    round_money(IF cost_value = None /\ price_m3 # None
                THEN FMul(m3, price_m3) ELSE cost_value)

\* record.get("raw") or {}
RawOf(record) == IF Truthy(record.raw) THEN record.raw ELSE JDict(<<>>)

\* raw.get("DATE_INDEX") or record.get("date")
DateCandidate(record, raw) ==
    IF raw.t = "dict" /\ Truthy(DictGet(raw, "DATE_INDEX"))
    THEN DictGet(raw, "DATE_INDEX")
    ELSE record.date

NormalizedRecord(date_value, liters, m3, cost_value, price_m3, raw) ==
    [date   |-> ord2ymd(date_value.ord),
     liters |-> liters,
     m3     |-> m3,
     euros  |-> cost_of(cost_value, m3, price_m3),
     raw    |-> raw]

NormalizeVolume(date_value, volume_value, kind, cost_value, price_m3, raw) ==
    NormalizedRecord(date_value, liters_of(kind, volume_value),
                     m3_of(kind, volume_value), cost_value, price_m3, raw)

NormalizeParsed(date_value, volume_value, unit, cost_value, price_m3, raw) ==
    IF date_value = Raised THEN Raised
    ELSE IF date_value = None \/ volume_value = None THEN None
    ELSE NormalizeVolume(date_value, volume_value, volume_unit(unit, volume_value),
                         cost_value, price_m3, raw)

normalize_record(record, price_m3) ==
    NormalizeParsed(parse_date(DateCandidate(record, RawOf(record))),
                    coerce_float(record.volume),
                    StrLower(PyStr(record.unit)),
                    coerce_float(record.cost),
                    price_m3, RawOf(record))


(***************************************************************************)
(* Aggregator.  A normalized record is [date, liters, m3, euros, raw]:     *)
(* date the ISO text as [y, m, d], euros a float or None.                  *)
(***************************************************************************)
\* datetime.fromisoformat(text).date() as an ordinal; 0 stands for ValueError
IsoOrdinal(date) ==
    IF ValidYmd(date.y, date.m, date.d) THEN ymd2ord(date.y, date.m, date.d) ELSE 0

\* the order of ISO date texts as strings
DateKey(record) == (record.date.y * 100 + record.date.m) * 100 + record.date.d

\* sum(values): 0 + values[1] + ... from left to right
RECURSIVE FSumTo(_, _)
FSumTo(values, i) ==
    IF i = 0 THEN FZero ELSE FAdd(FSumTo(values, i - 1), values[i])

FSum(values) == FSumTo(values, Len(values))

FieldOf(records, f) == [i \in 1..Len(records) |-> records[i][f]]

HasEuros(record) == record.euros # None

SumLiters(records) == FSum(FieldOf(records, "liters"))

\* a variant that totals the liters where the cubic metres are asked for
SumM3OfLiters(records) == FSum(FieldOf(records, "liters"))

SumM3(records) == FSum(FieldOf(records, "m3"))

SumEuros(records) == round_money(FSum(FieldOf(SelectSeq(records, HasEuros), "euros")))

dedup_key(record) ==
    << record.date, FRoundDec(record.liters, 6), FRoundDec(record.m3, 6),
       IF record.euros = None THEN None ELSE FRoundDec(record.euros, 6) >>

\* the records of filtered whose key no earlier record has
\* a variant that drops no record
DeduplicateNothing(filtered) == filtered

RECURSIVE DedupFrom(_, _, _)
DedupFrom(filtered, keys, i) ==
    IF i > Len(filtered) THEN <<>>
    ELSE (IF \A j \in 1..(i - 1) : keys[j] # keys[i] THEN <<filtered[i]>> ELSE <<>>)
         \o DedupFrom(filtered, keys, i + 1)

Deduplicate(filtered) ==
    DedupFrom(filtered, [i \in 1..Len(filtered) |-> dedup_key(filtered[i])], 1)

\* sorted(records, key=lambda r: r["date"]): stable
RECURSIVE SortedByDate(_)
SortedByDate(records) ==
    IF records = <<>> THEN <<>>
    ELSE LET n     == Len(records)
             front == SortedByDate(SubSeq(records, 1, n - 1))
             r     == records[n]
             k     == Cardinality({i \in 1..(n - 1) : DateKey(front[i]) <= DateKey(r)})
         IN  SubSeq(front, 1, k) \o <<r>> \o SubSeq(front, k + 1, n - 1)

\* max(records, key=lambda r: r["date"]): the first record of the greatest date
MaxByDate(records) ==
    records[CHOOSE i \in 1..Len(records) :
                /\ \A j \in 1..Len(records) : DateKey(records[j]) <= DateKey(records[i])
                /\ \A j \in 1..(i - 1) : DateKey(records[j]) < DateKey(records[i])]

\* a variant whose thresholds are strict
overconsumption_level_strict(over_ratio) ==
    IF FLt(FFromInt(3), over_ratio) THEN "critical"
    ELSE IF FLt(FFromInt(2), over_ratio) THEN "high"
    ELSE "normal"

overconsumption_level(over_ratio) ==
    IF FLe(FFromInt(3), over_ratio) THEN "critical"
    ELSE IF FLe(FFromInt(2), over_ratio) THEN "high"
    ELSE "normal"

\* a variant without the lower end of the range
InRangeNoCutoff(records, lo, hi) ==
    SelectSeq(records, LAMBDA r : IsoOrdinal(r.date) # 0 /\ IsoOrdinal(r.date) <= hi)

InRange(records, lo, hi) ==
    SelectSeq(records, LAMBDA r : lo <= IsoOrdinal(r.date) /\ IsoOrdinal(r.date) <= hi)

\* the averages over day_count records
Averages(total_liters, total_m3, total_euros, day_count) ==
    IF day_count # 0
    THEN [avg_daily_liters |-> FDiv(total_liters, FFromInt(day_count)),
          avg_daily_m3     |-> FDiv(total_m3, FFromInt(day_count)),
          avg_daily_euros  |-> round_money(FDiv(total_euros, FFromInt(day_count)))]
    ELSE [avg_daily_liters |-> FZero, avg_daily_m3 |-> FZero, avg_daily_euros |-> FZero]

OverLevel(last_date, over_ratio) ==
    [last_date |-> last_date,
     overconsumption_ratio |-> over_ratio,
     overconsumption_level |->
         IF over_ratio = None THEN "unknown" ELSE overconsumption_level(over_ratio)]

\* the last day against the average day
Overconsumption(deduped, avg_daily_liters) ==
    IF deduped = <<>> THEN OverLevel(None, None)
    ELSE IF FLt(FZero, avg_daily_liters)
    THEN OverLevel(MaxByDate(deduped).date,
                   FDiv(MaxByDate(deduped).liters, avg_daily_liters))
    ELSE OverLevel(MaxByDate(deduped).date, None)

WeekToDate(week_records, week_start, end_date) ==
    [week_start |-> ord2ymd(week_start),
     week_end   |-> ord2ymd(end_date),
     wtd_liters |-> SumLiters(week_records),
     wtd_m3     |-> SumM3(week_records),
     wtd_euros  |-> SumEuros(week_records),
     week_day_count |-> Len(week_records)]

estimate_month_euros(mtd_m3, month_day_count, days_in_month, price_m3) ==
    IF price_m3 # None /\ month_day_count > 0
    THEN round_money(FMul(FMul(FDiv(mtd_m3, FFromInt(month_day_count)),
                               FFromInt(days_in_month)), price_m3))
    ELSE None

MonthToDate(month_records, to_ymd, price_m3) ==
    [month_start |-> Ymd(to_ymd.y, to_ymd.m, 1),
     month_end   |-> to_ymd,
     mtd_liters  |-> SumLiters(month_records),
     mtd_m3      |-> SumM3(month_records),
     mtd_euros   |-> SumEuros(month_records),
     month_day_count |-> Len(month_records),
     days_in_month   |-> DaysInMonth(to_ymd.y, to_ymd.m),
     estimate_month_euros |->
         estimate_month_euros(SumM3(month_records), Len(month_records),
                              DaysInMonth(to_ymd.y, to_ymd.m), price_m3)]

Analytics(deduped, averages, end_date, to_ymd, price_m3) ==
    averages
    @@ WeekToDate(InRange(deduped, end_date - Weekday(end_date), end_date),
                  end_date - Weekday(end_date), end_date)
    @@ MonthToDate(InRange(deduped, ymd2ord(to_ymd.y, to_ymd.m, 1), end_date),
                   to_ymd, price_m3)
    @@ Overconsumption(deduped, averages.avg_daily_liters)

AggregateTotals(deduped, totals, days, end_date, price_m3, metadata) ==
    [days |-> days,
     from |-> ord2ymd(end_date - (days - 1)),
     to   |-> ord2ymd(end_date),
     totals |-> totals,
     price_m3 |-> price_m3,
     metadata |-> metadata,
     analytics |->
         Analytics(deduped,
                   Averages(totals.total_liters, totals.total_m3, totals.total_euros,
                            Len(deduped)),
                   end_date, ord2ymd(end_date), price_m3),
     daily |-> SortedByDate(deduped)]

Totals(deduped) ==
    [total_liters |-> SumLiters(deduped),
     total_m3     |-> SumM3(deduped),
     total_euros  |-> SumEuros(deduped)]

AggregateDeduped(deduped, days, end_date, price_m3, metadata) ==
    AggregateTotals(deduped, Totals(deduped), days, end_date, price_m3, metadata)

\* max(record_dates)
LastOrdinal(dated) ==
    CHOOSE n \in {IsoOrdinal(dated[i].date) : i \in 1..Len(dated)} :
        \A i \in 1..Len(dated) : IsoOrdinal(dated[i].date) <= n

AggregateDated(dated, days, end_date, price_m3, metadata) ==
    AggregateDeduped(Deduplicate(InRange(dated, end_date - (days - 1), end_date)),
                     days, end_date, price_m3, metadata)

EmptyResult(days, price_m3, metadata) ==
    [days |-> days, from |-> None, to |-> None,
     totals |-> [total_liters |-> FZero, total_m3 |-> FZero, total_euros |-> FZero],
     price_m3 |-> price_m3, metadata |-> metadata,
     analytics |-> <<>>, daily |-> <<>>]

HasDate(record) == IsoOrdinal(record.date) # 0

aggregate_last_days(records, days, price_m3, metadata) ==
    IF SelectSeq(records, HasDate) = <<>>
    THEN EmptyResult(days, price_m3, metadata)
    ELSE AggregateDated(SelectSeq(records, HasDate), days,
                        LastOrdinal(SelectSeq(records, HasDate)), price_m3, metadata)


(***************************************************************************)
(* Payload trees.  The walks visit a dict's items in insertion order and   *)
(* a list's items in order, depth first.                                   *)
(***************************************************************************)
DATE_KEYS ==
    <<"date", "jour", "day", "dateconso", "datereleve", "date_releve", "date_index">>

VOLUME_KEYS == <<"volume", "conso", "consommation", "litre", "litres", "m3", "m^3">>

COST_KEYS == <<"euros", "euro", "prix", "montant", "ttc", "cost">>

UNIT_KEYS == <<"unit", "unite", "unité", "uom">>

PRICE_KEYS == {"prixmoyeneau", "prixmoyen", "prixmoyen_eau", "prixmoyenent", "prixm3"}

METADATA_KEYS ==
    [consommationmax     |-> "consommation_max_m3",
     consommationmoyenne |-> "consommation_moyenne_m3",
     dateconsommationmax |-> "date_consommation_max",
     datedebut           |-> "date_debut",
     datefin             |-> "date_fin",
     idpds               |-> "id_pds",
     numerocompteur      |-> "numero_compteur",
     indexmesure         |-> "index_mesure"]

\* node.values()
DictValues(node) == [i \in 1..Len(node.kv) |-> node.kv[i][2]]

\* any(token in lowered for token in keys)
HasToken(lowered, keys) == \E i \in 1..Len(keys) : Contains(lowered, keys[i])

\* the positions of the keys of obj that hold a token of keys
KeyHits(obj, keys) == {i \in 1..Len(obj.kv) : HasToken(StrLower(obj.kv[i][1]), keys)}

\* a variant that goes by the order of the aliases: the key of the first alias
\* that some key holds
find_key_by_alias(obj, keys) ==
    IF KeyHits(obj, keys) = {} THEN 0
    ELSE LET first == CHOOSE t \in 1..Len(keys) :
                          /\ \E i \in 1..Len(obj.kv) : Contains(StrLower(obj.kv[i][1]), keys[t])
                          /\ \A u \in 1..(t - 1) : \A i \in 1..Len(obj.kv) :
                                 ~Contains(StrLower(obj.kv[i][1]), keys[u])
         IN  CHOOSE i \in 1..Len(obj.kv) :
                 /\ Contains(StrLower(obj.kv[i][1]), keys[first])
                 /\ \A j \in 1..(i - 1) : ~Contains(StrLower(obj.kv[j][1]), keys[first])

\* _find_key as the position of the key it returns, 0 for None
find_key(obj, keys) ==
    IF KeyHits(obj, keys) = {} THEN 0
    ELSE CHOOSE i \in KeyHits(obj, keys) : \A j \in KeyHits(obj, keys) : i <= j

\* node.get(key) for the key at position i, Absent when no key was found
ValueAt(node, i) == IF i = 0 THEN Absent ELSE node.kv[i][2]

RawRecord(node) ==
    [date   |-> ValueAt(node, find_key(node, DATE_KEYS)),
     volume |-> ValueAt(node, find_key(node, VOLUME_KEYS)),
     cost   |-> ValueAt(node, find_key(node, COST_KEYS)),
     unit   |-> ValueAt(node, find_key(node, UNIT_KEYS)),
     raw    |-> node]

RECURSIVE ExtractWalk(_)
RECURSIVE ExtractEach(_, _)
ExtractEach(nodes, i) ==
    IF i > Len(nodes) THEN <<>>
    ELSE ExtractWalk(nodes[i]) \o ExtractEach(nodes, i + 1)

ExtractWalk(node) ==
    CASE node.t = "dict" ->
            (IF find_key(node, DATE_KEYS) # 0 /\ find_key(node, VOLUME_KEYS) # 0
             THEN <<RawRecord(node)>> ELSE <<>>)
            \o ExtractEach(DictValues(node), 1)
      [] node.t = "list" -> ExtractEach(node.items, 1)
      [] OTHER -> <<>>

extract_records(payload) == ExtractWalk(payload)

RECURSIVE PriceWalk(_, _)
RECURSIVE PriceItems(_, _, _)
RECURSIVE PriceList(_, _, _)
\* the loop over node.items() from its i-th item, price being the nonlocal
PriceItems(kv, i, price) ==
    IF i > Len(kv) THEN price
    ELSE IF normalize_key(kv[i][1]) \in PRICE_KEYS
    THEN (IF coerce_float(kv[i][2]) # None THEN coerce_float(kv[i][2])
          ELSE PriceItems(kv, i + 1, PriceWalk(kv[i][2], None)))
    ELSE PriceItems(kv, i + 1, PriceWalk(kv[i][2], price))

PriceList(items, i, price) ==
    IF i > Len(items) THEN price
    ELSE PriceList(items, i + 1, PriceWalk(items[i], price))

PriceWalk(node, price) ==
    IF price # None THEN price
    ELSE CASE node.t = "dict" -> PriceItems(node.kv, 1, price)
           [] node.t = "list" -> PriceList(node.items, 1, price)
           [] OTHER -> price

find_price_m3(payload) == PriceWalk(payload, None)

\* the position of the first c in st, 0 when there is none
IndexOfChar(st, c) ==
    IF \E i \in 1..Len(st) : Ch(st, i) = c
    THEN CHOOSE i \in 1..Len(st) : Ch(st, i) = c /\ \A j \in 1..(i - 1) : Ch(st, j) # c
    ELSE 0

DatetimeLt(a, b) == a.ord < b.ord \/ (a.ord = b.ord /\ a.sec < b.sec)

\* datetime.isoformat()
IsoDatetime(dt) ==
    IF dt.aware THEN [date |-> ord2ymd(dt.ord), sec |-> dt.sec, offset |-> "+00:00"]
    ELSE [date |-> ord2ymd(dt.ord), sec |-> dt.sec]

\* the latest reading after one that parsed to value and date_value; Python
\* raises TypeError comparing a datetime with time zone and one without
IndexParsed(entry, value, date_value, latest) ==
    IF date_value = None \/ value = None THEN latest
    ELSE IF latest = None THEN [date |-> date_value, value |-> value, raw |-> entry]
    ELSE IF latest.date.aware # date_value.aware THEN Raised
    ELSE IF DatetimeLt(latest.date, date_value)
    THEN [date |-> date_value, value |-> value, raw |-> entry]
    ELSE latest

\* one entry "value;date" of the index series
IndexEntry(entry, latest) ==
    IF latest = Raised THEN Raised
    ELSE IF entry.t # "str" THEN latest
    ELSE IF IndexOfChar(entry.str, ";") = 0 THEN latest
    ELSE IndexParsed(entry,
                     coerce_float(JStr(SubSeq(entry.str, 1, IndexOfChar(entry.str, ";") - 1))),
                     parse_date(JStr(SubSeq(entry.str, IndexOfChar(entry.str, ";") + 1,
                                            Len(entry.str)))),
                     latest)

RECURSIVE IndexFold(_, _, _)
IndexFold(items, i, latest) ==
    IF i > Len(items) THEN latest
    ELSE IndexFold(items, i + 1, IndexEntry(items[i], latest))

IndexResult(latest) ==
    IF latest = Raised THEN Raised
    ELSE IF latest = None THEN <<>>
    ELSE [index_last_value |-> latest.value,
          index_last_date  |-> IsoDatetime(latest.date),
          index_last_raw   |-> latest.raw]

parse_index_mesure(entries) ==
    IF entries.t # "list" THEN <<>> ELSE IndexResult(IndexFold(entries.items, 1, None))

EndsWith(st, suffix) ==
    Len(st) >= Len(suffix) /\ SubSeq(st, Len(st) - Len(suffix) + 1, Len(st)) = suffix

\* metadata[target_key] = value
Store(metadata, target_key, value) == (target_key :> value) @@ metadata

\* a variant that stores every value as it came
StoreTargetVerbatim(metadata, target_key, value) ==
    IF target_key = "index_mesure"
    THEN (IF parse_index_mesure(value) = Raised THEN Raised
          ELSE parse_index_mesure(value) @@ metadata)
    ELSE Store(metadata, target_key, value)

\* what find_metadata does with a key whose normalized name is a metadata alias
StoreTarget(metadata, target_key, value) ==
    IF target_key = "index_mesure"
    THEN (IF parse_index_mesure(value) = Raised THEN Raised
          ELSE parse_index_mesure(value) @@ metadata)
    ELSE IF EndsWith(target_key, "_m3") THEN Store(metadata, target_key, coerce_float(value))
    ELSE Store(metadata, target_key, value)

StoreMetadata(metadata, normalized, value) ==
    IF normalized \in DOMAIN METADATA_KEYS
    THEN StoreTarget(metadata, METADATA_KEYS[normalized], value)
    ELSE metadata

StorePrice(metadata, normalized, value) ==
    IF metadata = Raised THEN Raised
    ELSE IF normalized \in PRICE_KEYS /\ "price_m3" \notin DOMAIN metadata
    THEN ("price_m3" :> coerce_float(value)) @@ metadata
    ELSE metadata

RECURSIVE MetadataWalk(_, _)
RECURSIVE MetadataItems(_, _, _)
RECURSIVE MetadataList(_, _, _)
MetadataItems(kv, i, metadata) ==
    IF metadata = Raised THEN Raised
    ELSE IF i > Len(kv) THEN metadata
    ELSE MetadataItems(kv, i + 1,
             MetadataWalk(kv[i][2],
                 StorePrice(StoreMetadata(metadata, normalize_key(kv[i][1]), kv[i][2]),
                            normalize_key(kv[i][1]), kv[i][2])))

MetadataList(items, i, metadata) ==
    IF metadata = Raised THEN Raised
    ELSE IF i > Len(items) THEN metadata
    ELSE MetadataList(items, i + 1, MetadataWalk(items[i], metadata))

MetadataWalk(node, metadata) ==
    CASE node.t = "dict" -> MetadataItems(node.kv, 1, metadata)
      [] node.t = "list" -> MetadataList(node.items, 1, metadata)
      [] OTHER -> metadata

find_metadata(payload) == MetadataWalk(payload, <<>>)

\* dict.get(key) of a metadata mapping
MetaGet(metadata, key) == IF key \in DOMAIN metadata THEN metadata[key] ELSE None

\* the truth value of an Optional[float]
FloatTruthy(x) == x # None /\ ~FIsZero(x)

\* price_m3 after the payload: the first price found stays
\* a variant that takes the price of every payload that has one
payload_price_latest(price_m3, payload_metadata, payload) ==
    IF FloatTruthy(MetaGet(payload_metadata, "price_m3"))
    THEN payload_metadata["price_m3"]
    ELSE IF find_price_m3(payload) # None THEN find_price_m3(payload)
    ELSE price_m3

\* price_m3 after one payload, lines 732-733
payload_price(price_m3, payload_metadata, payload) ==
    IF price_m3 # None THEN price_m3
    ELSE IF FloatTruthy(MetaGet(payload_metadata, "price_m3"))
    THEN payload_metadata["price_m3"]
    ELSE find_price_m3(payload)

\* normalize_record on each raw record
NormalizeEach(raws, price_m3) ==
    [i \in 1..Len(raws) |-> normalize_record(raws[i], price_m3)]

IsRecord(normalized) == normalized # None

\* a variant that lists the URLs last first
UrlsReversed(captured) == [i \in 1..Len(captured) |-> captured[Len(captured) + 1 - i][1]]

\* [url for url, _ in responses]
Urls(captured) == [i \in 1..Len(captured) |-> captured[i][1]]

NoResponses ==
    [error |-> "Aucune réponse JSON capturée. Vérifiez si le site charge des données via API.",
     hint  |-> "Lancer en mode headless=false pour voir le navigateur."]

NoConsumption(captured) ==
    [error     |-> "Données JSON capturées mais pas de consommation détectée.",
     responses |-> Urls(captured)]

(***************************************************************************)
(* State.  Three machines share the module: the post-capture run of        *)
(* fetch_consumption (Spec), normalize_record applied to one raw record    *)
(* (SpecNorm) and aggregate_last_days applied to a record list (SpecAgg).  *)
(***************************************************************************)
VARIABLES
    responses,      \* fetch_consumption: the captured <<url, payload>> pairs
    pc,             \* fetch_consumption: "capture", "loop" or "done"
    merged,         \* fetch_consumption: how many payloads the loop has taken
    run_days,       \* fetch_consumption: days
    run_metadata,   \* fetch_consumption: metadata
    run_price,      \* fetch_consumption: price_m3
    all_records,    \* fetch_consumption: all_records
    result,         \* fetch_consumption: the document returned
    n_record,       \* normalize_record: its raw record
    n_price,        \* normalize_record: its price_m3
    n_out,          \* normalize_record: what it returned (Absent before the call)
    a_records,      \* aggregate_last_days: records
    a_days,         \* aggregate_last_days: days
    a_price,        \* aggregate_last_days: price_m3
    a_result,       \* aggregate_last_days: what it returned (Absent before the call)
    k_obj,          \* _find_key: obj
    k_keys,         \* _find_key: keys
    k_out,          \* _find_key: what it returned (Absent before the call)
    i_entries,      \* _parse_index_mesure: entries
    i_out           \* _parse_index_mesure: what it returned (Absent before the call)

pipeVars == <<responses, pc, merged, run_days, run_metadata, run_price, all_records, result>>

normVars == <<n_record, n_price, n_out>>

aggVars == <<a_records, a_days, a_price, a_result>>

keyVars == <<k_obj, k_keys, k_out>>

indexVars == <<i_entries, i_out>>

pureVars == <<keyVars, indexVars>>

vars == <<pipeVars, normVars, aggVars, pureVars>>

PipeIdle ==
    /\ responses = <<>> /\ pc = "idle" /\ merged = 0 /\ run_days = 0
    /\ run_metadata = <<>> /\ run_price = None
    /\ all_records = <<>> /\ result = Absent

NormIdle == n_record = Absent /\ n_price = None /\ n_out = Absent

AggIdle == a_records = <<>> /\ a_days = 0 /\ a_price = None /\ a_result = Absent

KeyIdle == k_obj = JDict(<<>>) /\ k_keys = <<>> /\ k_out = Absent

IndexIdle == i_entries = None /\ i_out = Absent

PureIdle == KeyIdle /\ IndexIdle

(***************************************************************************)
(* aggregate_last_days on record lists.  The records are such as           *)
(* normalize_record yields for whole litres: m3 is liters / 1000.0, euros  *)
(* has two decimals or is None.                                            *)
(***************************************************************************)
MaxRecords == 3

NRec(date, liters, cents) ==
    [date   |-> date,
     liters |-> FFromInt(liters),
     m3     |-> FDiv(FFromInt(liters), FFromInt(1000)),
     euros  |-> IF cents < 0 THEN None ELSE FFromDecimal(cents, 2),
     raw    |-> JDict(<<>>)]

\* Monday 29 January, Wednesday 31 January and Thursday 1 February 2024, and
\* a date that does not exist
AggRecords ==
    { NRec(Ymd(2024, 1, 29), 0, -1),
      NRec(Ymd(2024, 1, 31), 0, -1),
      NRec(Ymd(2024, 1, 31), 200, 10),
      NRec(Ymd(2024, 2, 1), 100, 20),
      NRec(Ymd(2024, 2, 1), 600, -1),
      NRec(Ymd(2024, 2, 30), 300, -1) }

\* SCRAPE_DAYS, and a window that leaves 29 January out
AggDays == {3, 40}

AggPrices == {None, FFromDecimal(45, 1)}

AggInit ==
    /\ a_records = <<>>
    /\ a_days \in AggDays
    /\ a_price \in AggPrices
    /\ a_result = Absent
    /\ PipeIdle /\ NormIdle /\ PureIdle

\* the caller appends one more record to the list it will pass
AggAdd ==
    /\ a_result = Absent
    /\ Len(a_records) < MaxRecords
    /\ \E r \in AggRecords : a_records' = Append(a_records, r)
    /\ UNCHANGED <<a_days, a_price, a_result, pipeVars, normVars, pureVars>>

AggRun ==
    /\ a_result = Absent
    /\ a_result' = aggregate_last_days(a_records, a_days, a_price, <<>>)
    /\ UNCHANGED <<a_records, a_days, a_price, pipeVars, normVars, pureVars>>

AggNext == AggAdd \/ AggRun

SpecAgg == AggInit /\ [][AggNext]_vars

AggDone == a_result # Absent

\* the input records whose date text is a date
ValidInputs == {i \in 1..Len(a_records) : IsoOrdinal(a_records[i].date) # 0}

SeqRange(q) == {q[i] : i \in 1..Len(q)}

RemoveAt(q, i) == SubSeq(q, 1, i - 1) \o SubSeq(q, i + 1, Len(q))


(***************************************************************************)
(* fetch_consumption from the first captured response on: the browser      *)
(* session hands its JSON responses to handle_response, then the payloads  *)
(* are merged one by one and the document is returned.                     *)
(***************************************************************************)
MaxResponses == 2

SCRAPE_DAYS == 40

Consumption ==
    JDict(<< <<"data", JList(<<
                 JDict(<< <<"date", JStr("2024-01-29")>>, <<"volume", JNum(120, 0)>> >>),
                 JDict(<< <<"date", JStr("2024-01-31")>>, <<"volume", JStr("0,25")>>,
                          <<"unite", JStr("m3")>>, <<"montant", JStr("1,50 €")>> >>),
                 JDict(<< <<"date", JStr("2024-02-01")>>, <<"m3", JNum(21, 4)>> >>) >>)>>,
             <<"prixMoyenEau", JStr("4,5")>> >>)

Contract ==
    JDict(<< <<"consommationMax", JStr("12,5")>>,
             <<"detail", JDict(<< <<"DATECONSOMMATIONMAX", JStr("15/03/2024")>>,
                                  <<"numeroCompteur", JStr("A")>> >>)>> >>)

Meters ==
    JDict(<< <<"numeroCompteur", JStr("A")>>,
             <<"ancien", JDict(<< <<"numeroCompteur", JStr("B")>> >>)>> >>)

OtherMeter == JDict(<< <<"Numero_Compteur", JStr("C")>>, <<"prixM3", JNum(3, 0)>> >>)

Status == JDict(<< <<"status", JStr("ok")>> >>)

Unreadable == JList(<< JDict(<< <<"jour", JStr("bad")>>, <<"conso", JNum(5, 0)>> >>) >>)

\* a reading of Tuesday 30 January 2024 in a payload without a price
Readings == JList(<< JDict(<< <<"date", JStr("2024-01-30")>>, <<"volume", JNum(80, 0)>> >>) >>)

\* a reading dated at 1e20 seconds
Overflowing == JList(<< JDict(<< <<"date", JNum(1, -20)>>, <<"volume", JNum(5, 0)>> >>) >>)

\* the JSON responses the portal may answer with
Captures ==
    { <<"/historique/consommation", Consumption>>,
      <<"/contrat", Contract>>,
      <<"/compteurs", Meters>>,
      <<"/compteur", OtherMeter>>,
      <<"/status", Status>>,
      <<"/releves", Unreadable>>,
      <<"/index", Overflowing>>,
      <<"/journal", Readings>> }

Init ==
    /\ responses = <<>>
    /\ pc = "capture"
    /\ merged = 0
    /\ run_days = SCRAPE_DAYS
    /\ run_metadata = <<>>
    /\ run_price = None
    /\ all_records = <<>>
    /\ result = Absent
    /\ NormIdle /\ AggIdle /\ PureIdle

\* handle_response on a response whose content type is JSON
HandleResponse ==
    /\ pc = "capture"
    /\ Len(responses) < MaxResponses
    /\ \E r \in Captures : responses' = Append(responses, r)
    /\ UNCHANGED <<pc, merged, run_days, run_metadata, run_price, all_records, result,
                   normVars, aggVars, pureVars>>

\* the browser closed without a captured response
ReturnNoResponses ==
    /\ pc = "capture"
    /\ responses = <<>>
    /\ result' = NoResponses
    /\ pc' = "done"
    /\ UNCHANGED <<responses, merged, run_days, run_metadata, run_price, all_records,
                   normVars, aggVars, pureVars>>

\* one turn of the loop over responses; an exception out of find_metadata or
\* normalize_record leaves fetch_consumption and there is no document
MergePayload ==
    /\ pc \in {"capture", "loop"}
    /\ merged < Len(responses)
    /\ IF find_metadata(responses[merged + 1][2]) = Raised
       THEN /\ result' = Raised
            /\ pc' = "done"
            /\ UNCHANGED <<merged, run_metadata, run_price, all_records>>
       ELSE /\ merged' = merged + 1
            /\ run_metadata' = run_metadata @@ find_metadata(responses[merged + 1][2])
            /\ run_price' = payload_price(run_price, find_metadata(responses[merged + 1][2]),
                                          responses[merged + 1][2])
            /\ LET normalized == NormalizeEach(extract_records(responses[merged + 1][2]),
                                               run_price')
               IN  IF \E i \in 1..Len(normalized) : normalized[i] = Raised
                   THEN /\ result' = Raised
                        /\ pc' = "done"
                        /\ all_records' = all_records
                   ELSE /\ result' = result
                        /\ pc' = "loop"
                        /\ all_records' = all_records \o SelectSeq(normalized, IsRecord)
    /\ UNCHANGED <<responses, run_days, normVars, aggVars, pureVars>>

\* after the loop
ReturnResult ==
    /\ pc = "loop"
    /\ merged = Len(responses)
    /\ result' = IF all_records = <<>> THEN NoConsumption(responses)
                 ELSE aggregate_last_days(all_records, run_days, run_price, run_metadata)
    /\ pc' = "done"
    /\ UNCHANGED <<responses, merged, run_days, run_metadata, run_price, all_records,
                   normVars, aggVars, pureVars>>

Next == HandleResponse \/ ReturnNoResponses \/ MergePayload \/ ReturnResult

Spec == Init /\ [][Next]_vars

\* the run returned a document
Done == pc = "done" /\ result # Raised

(***************************************************************************)
(* normalize_record on one raw record, as extract_records builds it.       *)
(***************************************************************************)
\* ISO and day-first texts, text without a date, an epoch timestamp, the
\* timestamp 1e20, a boolean, null, a list
NormDates ==
    {JStr("2024-01-02"), JStr("15/03/2024"), JStr("bad"), JNum(1704153600, 0),
     JNum(1, -20), JBool(TRUE), None, JList(<<>>)}

NormVolumes ==
    {JNum(21, 4), JNum(25, 2), JNum(0, 0), JNum(-5, 0), JNum(50, 0), JNum(51, 0),
     JNum(300, 0), JStr("12,5"), JStr("abc"), None, JDict(<<>>)}

NormUnits ==
    {Absent, JStr("m3"), JStr("m^3"), JStr("Litres"), JStr("L"), JStr("kWh"),
     JNum(5, 0), JDict(<< <<"code", JStr("m3")>> >>)}

NormCosts == {Absent, JStr("1,50 €"), JStr("abc"), JNum(2, 0), JList(<<>>)}

NormRaws == {JDict(<<>>), JDict(<< <<"DATE_INDEX", JStr("2024-02-01")>> >>)}

NormPrices == {None, FZero, FFromDecimal(45, 1)}

NormInit ==
    /\ n_record \in [date : NormDates, volume : NormVolumes, unit : NormUnits,
                      cost : NormCosts, raw : NormRaws]
    /\ n_price \in NormPrices
    /\ n_out = Absent
    /\ PipeIdle /\ AggIdle /\ PureIdle

NormRun ==
    /\ n_out = Absent
    /\ n_out' = normalize_record(n_record, n_price)
    /\ UNCHANGED <<n_record, n_price, pipeVars, aggVars, pureVars>>

NormNext == NormRun

SpecNorm == NormInit /\ [][NormNext]_vars

\* normalize_record returned a record
Normalized == n_out \notin {Absent, None, Raised}

(***************************************************************************)
(* _find_key on one mapping and one alias list.                            *)
(***************************************************************************)
MaxKeys == 2

\* key names as the portal spells them, with capitals and separators
KeyNames ==
    {"Date", "DATE_INDEX", "dateReleve", "Conso_L", "con-so", "volumeM3", "m^3", "id"}

\* the alias lists of the record miner, and two short lists in both orders
KeyLists ==
    {DATE_KEYS, VOLUME_KEYS, <<"date", "conso">>, <<"conso", "date">>, <<"date_index">>}

KeyInit ==
    /\ k_obj = JDict(<<>>)
    /\ k_keys \in KeyLists
    /\ k_out = Absent
    /\ PipeIdle /\ NormIdle /\ AggIdle /\ IndexIdle

\* the mapping gets one more key, after the ones it has
KeyAdd ==
    /\ k_out = Absent
    /\ Len(k_obj.kv) < MaxKeys
    /\ \E name \in KeyNames :
           /\ \A i \in 1..Len(k_obj.kv) : k_obj.kv[i][1] # name
           /\ k_obj' = JDict(Append(k_obj.kv, <<name, JNum(Len(k_obj.kv), 0)>>))
    /\ UNCHANGED <<k_keys, k_out, pipeVars, normVars, aggVars, indexVars>>

\* _find_key(obj, keys): the key, or None
KeyRun ==
    /\ k_out = Absent
    /\ k_out' = IF find_key(k_obj, k_keys) = 0 THEN None
                ELSE JStr(k_obj.kv[find_key(k_obj, k_keys)][1])
    /\ UNCHANGED <<k_obj, k_keys, pipeVars, normVars, aggVars, indexVars>>

KeyNext == KeyAdd \/ KeyRun

SpecKey == KeyInit /\ [][KeyNext]_vars

(***************************************************************************)
(* _parse_index_mesure on one series of readings.                          *)
(***************************************************************************)
MaxEntries == 3

\* readings "value;date": two at the same instant, a later one written day
\* first with a decimal comma, an earlier one, one with a time zone, and
\* entries with a bad value, a bad date, no separator, or no text at all
IndexEntries ==
    { JStr("5;2024-01-07T10:00:00"), JStr("6;2024-01-07T10:00:00"),
      JStr("7,5;08/01/2024"), JStr("8;2024-01-06"),
      JStr("12;2024-01-07T09:00:00Z"),
      JStr("x;2024-01-09"), JStr("9;bad"), JStr("10"), JNum(11, 0) }

\* the series is a list, or what else the payload holds under the key
IndexInit ==
    /\ i_entries \in {JList(<<>>), None, JStr("5;2024-01-07T10:00:00")}
    /\ i_out = Absent
    /\ PipeIdle /\ NormIdle /\ AggIdle /\ KeyIdle

\* the series gets one more reading
IndexAdd ==
    /\ i_out = Absent
    /\ i_entries.t = "list"
    /\ Len(i_entries.items) < MaxEntries
    /\ \E entry \in IndexEntries : i_entries' = JList(Append(i_entries.items, entry))
    /\ UNCHANGED <<i_out, pipeVars, normVars, aggVars, keyVars>>

\* _parse_index_mesure(entries): the fields it contributes, or the exception
IndexRun ==
    /\ i_out = Absent
    /\ i_out' = parse_index_mesure(i_entries)
    /\ UNCHANGED <<i_entries, pipeVars, normVars, aggVars, keyVars>>

IndexNext == IndexAdd \/ IndexRun

SpecIndex == IndexInit /\ [][IndexNext]_vars

(***************************************************************************)
(* Properties of normalize_record                                          *)
(***************************************************************************)
\* C8: every record normalize_record returns has m3 = liters / 1000 exactly,
\* whichever unit branch produced it.
C8_ExactM3 == Normalized => n_out.m3 = FDiv(n_out.liters, FFromInt(1000))

\* the unit text of the record, lower-cased
UnitText == StrLower(PyStr(n_record.unit))

LitreUnit == Contains(UnitText, "litre") \/ UnitText = "l"

CubicUnit == Contains(UnitText, "m3") \/ Contains(UnitText, "m^3")

\* C9: a unit text holding a litre variant makes the coerced volume v liters
\* (liters = v, m3 = v / 1000); otherwise one holding "m3" or "m^3" makes it
\* cubic metres (m3 = v, liters = 1000 v); with no usable unit v > 50 is
\* liters and v <= 50 (50, zero and negative values included) cubic metres.
C9_Units ==
    Normalized =>
        LET v == coerce_float(n_record.volume)
        IN  IF LitreUnit \/ (~CubicUnit /\ FLt(FFromInt(50), v))
            THEN n_out.liters = v /\ n_out.m3 = FDiv(v, FFromInt(1000))
            ELSE n_out.m3 = v /\ n_out.liters = FMul(v, FFromInt(1000))

\* a record without a usable unit whose volume is exactly 50
C9_Witness ==
    /\ Normalized
    /\ ~LitreUnit /\ ~CubicUnit
    /\ n_record.volume = JNum(50, 0)
    /\ n_out.m3 = FFromInt(50) /\ n_out.liters = FFromInt(50000)

\* the date and the volume of the record both coerce
Coercible ==
    /\ parse_date(DateCandidate(n_record, RawOf(n_record))) \notin {None, Raised}
    /\ coerce_float(n_record.volume) # None

\* C11: whatever the JSON types and values of its date, volume, cost and unit
\* candidates, normalize_record ends by returning a record or none, none
\* exactly when the resolved date or the volume fails to coerce
C11_NeverFaults ==
    n_out # Absent =>
        /\ n_out # Raised
        /\ (n_out = None) <=> ~Coercible

\* C12: euros is the explicit cost rounded to 2 decimals when the cost
\* candidate coerces; otherwise m3 times the price rounded to 2 decimals when
\* a price is known, a price of 0 included; it is none exactly when the cost
\* does not coerce and the price is none
C12_Cost ==
    Normalized =>
        /\ coerce_float(n_record.cost) # None =>
               n_out.euros = FRoundDec(coerce_float(n_record.cost), 2)
        /\ (coerce_float(n_record.cost) = None /\ n_price # None) =>
               n_out.euros = FRoundDec(FMul(n_out.m3, n_price), 2)
        /\ (n_out.euros = None) <=> (coerce_float(n_record.cost) = None /\ n_price = None)

\* a cost that does not coerce and a price of 0 give euros 0
C12_Witness ==
    /\ Normalized
    /\ n_record.cost = JStr("abc")
    /\ n_price = FZero
    /\ n_out.euros = FZero

(***************************************************************************)
(* Properties of aggregate_last_days                                       *)
(***************************************************************************)
\* the greatest date ordinal among the input records
LastInput ==
    CHOOSE n \in {IsoOrdinal(a_records[i].date) : i \in ValidInputs} :
        \A i \in ValidInputs : IsoOrdinal(a_records[i].date) <= n

\* C1: when some input record has a date, "to" is the greatest date of all the
\* input records, "from" is "to" minus (days - 1) days, and every record of
\* daily has from <= date <= to.
C1_Window ==
    AggDone /\ ValidInputs # {} =>
        /\ a_result.to = ord2ymd(LastInput)
        /\ \E i \in ValidInputs : a_records[i].date = a_result.to
        /\ a_result.from = ord2ymd(LastInput - (a_days - 1))
        /\ \A k \in 1..Len(a_result.daily) :
               /\ LastInput - (a_days - 1) <= IsoOrdinal(a_result.daily[k].date)
               /\ IsoOrdinal(a_result.daily[k].date) <= LastInput

\* a run whose window left a dated input record out and kept two others
C1_Witness ==
    /\ AggDone /\ a_days = 3
    /\ \E i \in ValidInputs : IsoOrdinal(a_records[i].date) < LastInput - 2
    /\ Len(a_result.daily) >= 2

\* C3: the dates of daily are strictly ascending, no two records of daily
\* having the same date.
C3_StrictlyAscending ==
    AggDone =>
        \A k \in 1..(Len(a_result.daily) - 1) :
            DateKey(a_result.daily[k]) < DateKey(a_result.daily[k + 1])

\* the input list without its i-th record, aggregated
AggregateWithout(i) ==
    aggregate_last_days(RemoveAt(a_records, i), a_days, a_price, <<>>)

FAbs(x) == [x EXCEPT !.s = 0]

\* |a - b| <= |b| / 10^9
FClose(a, b) == FLe(FMul(FAbs(FAdd(a, FNeg(b))), FFromInt(1000000000)), FAbs(b))

\* the records of daily in the order the list records first has them
RECURSIVE EncounterFrom(_, _, _)
EncounterFrom(records, daily, i) ==
    IF i > Len(records) THEN <<>>
    ELSE (IF /\ records[i] \in SeqRange(daily)
             /\ \A j \in 1..(i - 1) : records[j] # records[i]
          THEN <<records[i]>> ELSE <<>>)
         \o EncounterFrom(records, daily, i + 1)

EncounterOrder == EncounterFrom(a_records, a_result.daily, 1)

C6_Overconsumption ==
    AggDone /\ a_result.to # None =>
        LET daily == a_result.daily
            an    == a_result.analytics
            avg   == FDiv(a_result.totals.total_liters, FFromInt(Len(daily)))
            ratio == an.overconsumption_ratio
        IN  IF Len(daily) > 0 /\ FLt(FZero, avg)
            THEN /\ \E k \in 1..Len(daily) :
                        /\ \A j \in 1..Len(daily) : DateKey(daily[j]) <= DateKey(daily[k])
                        /\ ratio = FDiv(daily[k].liters, avg)
                 /\ an.overconsumption_level =
                        IF FLe(FFromInt(3), ratio) THEN "critical"
                        ELSE IF FLe(FFromInt(2), ratio) THEN "high"
                        ELSE "normal"
            ELSE /\ ratio = None
                 /\ an.overconsumption_level = "unknown"

\* a run whose ratio is exactly 3
C6_Witness ==
    /\ AggDone /\ a_result.to # None
    /\ a_result.analytics.overconsumption_ratio = FFromInt(3)
    /\ a_result.analytics.overconsumption_level = "critical"

(***************************************************************************)
(* Properties of fetch_consumption and find_metadata, under Spec.          *)
(***************************************************************************)
\* the values of the keys that stand for target, in the order the walk of
\* find_metadata meets them
RECURSIVE Occurrences(_, _)
RECURSIVE OccurrencesItems(_, _, _)
RECURSIVE OccurrencesList(_, _, _)
OccurrencesItems(kv, i, target) ==
    IF i > Len(kv) THEN <<>>
    ELSE (IF /\ normalize_key(kv[i][1]) \in DOMAIN METADATA_KEYS
             /\ METADATA_KEYS[normalize_key(kv[i][1])] = target
          THEN <<kv[i][2]>> ELSE <<>>)
         \o Occurrences(kv[i][2], target) \o OccurrencesItems(kv, i + 1, target)

OccurrencesList(items, i, target) ==
    IF i > Len(items) THEN <<>>
    ELSE Occurrences(items[i], target) \o OccurrencesList(items, i + 1, target)

Occurrences(node, target) ==
    CASE node.t = "dict" -> OccurrencesItems(node.kv, 1, target)
      [] node.t = "list" -> OccurrencesList(node.items, 1, target)
      [] OTHER -> <<>>

\* the same over the first n captured payloads, in capture order
RECURSIVE CapturedOccurrences(_, _, _)
CapturedOccurrences(captured, n, target) ==
    IF n = 0 THEN <<>>
    ELSE CapturedOccurrences(captured, n - 1, target) \o Occurrences(captured[n][2], target)

VerbatimTargets == {"date_consommation_max", "date_debut", "date_fin", "id_pds", "numero_compteur"}

NumericTargets == {"consommation_max_m3", "consommation_moyenne_m3"}

\* C2: metadata accumulation is first-match-wins per target key: the value a
\* canonical key holds after the payloads merged so far is the one of the
\* first matching source key, in the same payload tree or across payloads
C2_FirstMatchWins ==
    pc # "capture" =>
        /\ \A target \in VerbatimTargets :
               LET occ == CapturedOccurrences(responses, merged, target)
               IN  occ # <<>> =>
                       /\ target \in DOMAIN run_metadata
                       /\ run_metadata[target] = occ[1]
        /\ \A target \in NumericTargets :
               LET occ == CapturedOccurrences(responses, merged, target)
               IN  occ # <<>> =>
                       /\ target \in DOMAIN run_metadata
                       /\ run_metadata[target] = coerce_float(occ[1])

\* every raw record of every captured payload fails normalization
NoneSurvives ==
    \A i \in 1..Len(responses) :
        LET raws == extract_records(responses[i][2])
        IN  \A j \in 1..Len(raws) : normalize_record(raws[j], None) = None

AggregateKeys == {"days", "from", "to", "totals", "price_m3", "metadata", "analytics", "daily"}

\* the shape of the returned document
OutcomeShape ==
    /\ ("error" \in DOMAIN result) <=> (responses = <<>> \/ NoneSurvives)
    /\ responses = <<>> => DOMAIN result = {"error", "hint"}
    /\ (responses # <<>> /\ NoneSurvives) =>
           /\ DOMAIN result = {"error", "responses"}
           /\ result.responses = [i \in 1..Len(responses) |-> responses[i][1]]
    /\ (responses # <<>> /\ ~NoneSurvives) => DOMAIN result = AggregateKeys

\* C7: every run ends with a document; it has an error key exactly when no
\* payload was captured (then it has exactly error and hint) or when payloads
\* were captured and no raw record survived normalization (then it has error
\* and responses, the captured URLs in capture order); otherwise it is an
\* AggregateResult without an error key
C7_Outcome == pc = "done" => OutcomeShape

\* the same of the runs that return
C7_ReturnedOutcome == Done => OutcomeShape

\* two different payloads were captured and no record survived
C7_Witness ==
    /\ Done
    /\ Len(responses) = 2
    /\ responses[1][1] # responses[2][1]
    /\ NoneSurvives
    /\ "responses" \in DOMAIN result

\* C10 as stated: a tree with a peak-consumption key and a date-of-peak key
\* gives consommation_max_m3 as the coerced number and date_consommation_max
\* as the date parsed from the text, day first
C10_DateParsed ==
    pc # "capture" =>
        /\ "consommation_max_m3" \in DOMAIN run_metadata =>
               \E v \in SeqRange(CapturedOccurrences(responses, merged, "consommation_max_m3")) :
                   run_metadata["consommation_max_m3"] = coerce_float(v)
        /\ "date_consommation_max" \in DOMAIN run_metadata =>
               \E v \in SeqRange(CapturedOccurrences(responses, merged, "date_consommation_max")) :
                   /\ parse_date(v) \notin {None, Raised}
                   /\ run_metadata["date_consommation_max"] \in
                          {ord2ymd(parse_date(v).ord), parse_date(v), IsoDatetime(parse_date(v))}

\* C10, amended: consommation_max_m3 is the coerced number of a
\* peak-consumption key, date_consommation_max is the value of a date-of-peak
\* key exactly as it came, text included
C10_Stored ==
    pc # "capture" =>
        /\ \A target \in {"consommation_max_m3", "date_consommation_max"} :
               (target \in DOMAIN run_metadata)
                   <=> (CapturedOccurrences(responses, merged, target) # <<>>)
        /\ "consommation_max_m3" \in DOMAIN run_metadata =>
               \E v \in SeqRange(CapturedOccurrences(responses, merged, "consommation_max_m3")) :
                   run_metadata["consommation_max_m3"] = coerce_float(v)
        /\ "date_consommation_max" \in DOMAIN run_metadata =>
               \E v \in SeqRange(CapturedOccurrences(responses, merged, "date_consommation_max")) :
                   run_metadata["date_consommation_max"] = v

\* "12,5" was stored as 12.5 and "15/03/2024" as that text
C10_Witness ==
    /\ pc = "done"
    /\ "consommation_max_m3" \in DOMAIN run_metadata
    /\ "date_consommation_max" \in DOMAIN run_metadata
    /\ run_metadata["consommation_max_m3"] = FFromDecimal(125, 1)
    /\ run_metadata["date_consommation_max"] = JStr("15/03/2024")
    /\ parse_date(JStr("15/03/2024")).ord = ymd2ord(2024, 3, 15)

(***************************************************************************)
(* Properties of _find_key, under SpecKey.                                 *)
(***************************************************************************)
\* the text holds an alias of the list
HoldsAlias(text, keys) == \E t \in 1..Len(keys) : Contains(text, keys[t])

ReadingValue(entry) ==
    IF entry.t # "str" \/ IndexOfChar(entry.str, ";") = 0 THEN None
    ELSE coerce_float(JStr(SubSeq(entry.str, 1, IndexOfChar(entry.str, ";") - 1)))

\* the date side of a reading, None when the entry is skipped
ReadingDate(entry) ==
    IF entry.t # "str" \/ IndexOfChar(entry.str, ";") = 0 THEN None
    ELSE parse_date(JStr(SubSeq(entry.str, IndexOfChar(entry.str, ";") + 1, Len(entry.str))))

\* the positions of the readings that coerce on both sides
Readable(items) ==
    {i \in 1..Len(items) : ReadingValue(items[i]) # None /\ ReadingDate(items[i]) # None}

\* the earliest of the readings with the most recent date
Selected(items) ==
    CHOOSE i \in Readable(items) :
        /\ \A j \in Readable(items) : ~DatetimeLt(ReadingDate(items[i]), ReadingDate(items[j]))
        /\ \A j \in Readable(items) :
               ReadingDate(items[j]) = ReadingDate(items[i]) => i <= j

\* C14: entries that are not text, lack a semicolon or fail to coerce on
\* either side are skipped; the three index fields come from the earliest of
\* the readings with the most recent date; no reading, or no list, no field
C14_LatestReading ==
    i_out # Absent =>
        IF i_entries.t # "list" THEN i_out = <<>>
        ELSE IF Readable(i_entries.items) = {} THEN i_out = <<>>
        ELSE i_out = [index_last_value |->
                          ReadingValue(i_entries.items[Selected(i_entries.items)]),
                      index_last_date  |->
                          IsoDatetime(ReadingDate(i_entries.items[Selected(i_entries.items)])),
                      index_last_raw   |-> i_entries.items[Selected(i_entries.items)]]

\* the same of the series whose readable dates all carry a time zone or all
\* carry none
SameZone(items) ==
    \A i, j \in Readable(items) : ReadingDate(items[i]).aware = ReadingDate(items[j]).aware

C14_LatestReadingSameZone ==
    (i_out # Absent /\ i_entries.t = "list" /\ SameZone(i_entries.items)) => C14_LatestReading

(***************************************************************************)
(* Week-to-date and month-to-date counts, under SpecAgg.                   *)
(***************************************************************************)
\* the ordinal of the result's `to`
ToOrdinal == IsoOrdinal(a_result.to)

\* the calendar days from lo to hi that have a record in daily
DaysWithRecord(lo, hi) ==
    {IsoOrdinal(a_result.daily[k].date) : k \in 1..Len(a_result.daily)} \cap (lo..hi)

\* the records of daily dated from lo to hi
RecordsWithin(lo, hi) ==
    {k \in 1..Len(a_result.daily) :
        lo <= IsoOrdinal(a_result.daily[k].date) /\ IsoOrdinal(a_result.daily[k].date) <= hi}

\* C15: week_day_count is the number of calendar days from the Monday of
\* `to`'s week to `to` that have a record in daily, at most 7, and
\* month_day_count is the number of calendar days from day 1 of `to`'s month
\* to `to` that have a record in daily, at most the day of the month of `to`
\* and at most days_in_month
C15_DayCounts ==
    AggDone /\ ValidInputs # {} =>
        /\ a_result.analytics.week_day_count =
               Cardinality(DaysWithRecord(ToOrdinal - Weekday(ToOrdinal), ToOrdinal))
        /\ a_result.analytics.week_day_count <= 7
        /\ a_result.analytics.month_day_count =
               Cardinality(DaysWithRecord(ToOrdinal - (a_result.to.d - 1), ToOrdinal))
        /\ a_result.analytics.month_day_count <= a_result.to.d
        /\ a_result.analytics.month_day_count <= a_result.analytics.days_in_month

\* the counts are the numbers of records of daily in the two windows
C15_RecordCounts ==
    AggDone /\ ValidInputs # {} =>
        /\ a_result.analytics.week_day_count =
               Cardinality(RecordsWithin(ToOrdinal - Weekday(ToOrdinal), ToOrdinal))
        /\ a_result.analytics.month_day_count =
               Cardinality(RecordsWithin(ToOrdinal - (a_result.to.d - 1), ToOrdinal))
        /\ a_result.analytics.days_in_month = DaysInMonth(a_result.to.y, a_result.to.m)

(***************************************************************************)
(* The price across payloads, under Spec.                                  *)
(***************************************************************************)
\* the price a payload with these metadata yields by itself
YieldedPrice(payload_metadata, payload) ==
    IF payload_metadata = Raised THEN None
    ELSE IF FloatTruthy(MetaGet(payload_metadata, "price_m3"))
    THEN payload_metadata["price_m3"]
    ELSE find_price_m3(payload)

\* the price known after a payload, given the price known before it
PriceAfter(before, payload) ==
    IF before # None THEN before ELSE YieldedPrice(find_metadata(payload), payload)

\* the price yielded by the first of the first k payloads that yields one
RECURSIVE FirstPrice(_, _)
FirstPrice(captured, k) ==
    IF k = 0 THEN None ELSE PriceAfter(FirstPrice(captured, k - 1), captured[k][2])

\* a raw record without a cost of its own gets euros exactly when a price is
\* known
DerivedOnlyWithPrice(raw, normalized, price) ==
    (normalized \notin {None, Raised} /\ coerce_float(raw.cost) = None) =>
        (normalized.euros # None <=> price # None)

\* the raw records of a payload normalized with price, the lost ones left out
RecordsAt(raws, price) ==
    IF \A j \in 1..Len(raws) :
           DerivedOnlyWithPrice(raws[j], normalize_record(raws[j], price), price)
    THEN SelectSeq(NormalizeEach(raws, price), IsRecord)
    ELSE <<Raised>>

\* the records of payloads k to last, each normalized with the price known
\* after its own payload, before being the price known before payload k
RECURSIVE RecordsFrom(_, _, _, _)
RecordsWithPrice(captured, k, last, price) ==
    RecordsAt(extract_records(captured[k][2]), price) \o
    RecordsFrom(captured, k + 1, last, price)

RecordsFrom(captured, k, last, before) ==
    IF k > last THEN <<>>
    ELSE RecordsWithPrice(captured, k, last, PriceAfter(before, captured[k][2]))

PriceOrder ==
    /\ pc = "capture" => run_price = None
    /\ (pc # "capture" /\ result # Raised) =>
           run_price = FirstPrice(responses, merged)
    /\ Done =>
           /\ all_records = RecordsFrom(responses, 1, merged, None)
           /\ "price_m3" \in DOMAIN result => result.price_m3 = run_price

\* C16: the price starts as none, is set by the first payload in capture
\* order that yields a non-null price and never changes afterwards; the
\* records of a payload are normalized with the price known right after that
\* payload, so a record without a cost of its own has euros only if a price
\* was found in its payload or an earlier one
C16_PriceOrder ==
    /\ []PriceOrder
    /\ [][run_price # None => run_price' = run_price]_vars

\* a payload of readings came before the payload with the price: its record
\* has no euros in daily, a record of the priced payload has, and the result
\* reports the price
C16_Witness ==
    /\ Done
    /\ Urls(responses) = <<"/journal", "/historique/consommation">>
    /\ result.price_m3 = FFromDecimal(45, 1)
    /\ \E k \in 1..Len(result.daily) :
           result.daily[k].date = Ymd(2024, 1, 30) /\ result.daily[k].euros = None
    /\ \E k \in 1..Len(result.daily) :
           result.daily[k].date = Ymd(2024, 1, 29) /\ result.daily[k].euros # None

=============================================================================
